---- MODULE Spec2Model ----
(***************************************************************************)
(* RP2350 LED blink state machine (src/blink.rs): the BlinkController      *)
(* struct, its constructors, toggle(), the read accessors, set_delay(),    *)
(* and the free functions clamp_delay() and state_to_level().              *)
(*                                                                         *)
(* One controller is constructed (Init) and then driven by an arbitrary    *)
(* caller: every step of Next is one call of the public API.  The last     *)
(* call, its argument, its result and the controller as it was before the  *)
(* call are recorded so that the contract of each call can be stated.      *)
(*                                                                         *)
(* main() of src/main.rs, which blinks GPIO 16 without a controller, is    *)
(* modelled beside the controller-driven loop the specification expects    *)
(* of a driver (MainSpec).                                                 *)
(***************************************************************************)
EXTENDS Integers, FiniteSets, Sequences, TLC

(***************************************************************************)
(* Widths and bounds.                                                      *)
(*                                                                         *)
(* toggle_count is a u64 that is incremented, so its width matters: it is  *)
(* kept as an unsigned word of CountBits bits (2^64 scaled to              *)
(* 2^CountBits), with U64_MAX the largest value of the word.               *)
(*                                                                         *)
(* delay_ms is a u64 that is only ever compared (clamp), never computed    *)
(* with, so delays keep their real magnitudes and are drawn from a set of  *)
(* probes around the clamp limits, up to LargeDelay.                       *)
(***************************************************************************)
CountBits == 3

LargeDelay == 1000000

\* The (level, wait) events of a blink loop are recorded up to MaxLog
\* events; the loops themselves run on.
MaxLog == 6

U64_MODULUS == 2 ^ CountBits

U64_MAX == U64_MODULUS - 1

(***************************************************************************)
(* crate::config (imported at blink.rs:43).  The values are those of the   *)
(* configuration the unit tests of blink.rs pass under: 1 is below the     *)
(* minimum, 250, 500 and 1000 are in range, 100000 is above the maximum,   *)
(* and the default is the 500 ms half-period main.rs waits for.            *)
(***************************************************************************)
BLINK_DELAY_MS == 500

MIN_BLINK_DELAY_MS == 10

MAX_BLINK_DELAY_MS == 10000

\* The delays a caller passes: every side of both clamp limits, the values
\* the unit tests use, zero and a very large request.
DelayInputs ==
    { 0, 1, MIN_BLINK_DELAY_MS - 1, MIN_BLINK_DELAY_MS, MIN_BLINK_DELAY_MS + 1,
      250, 500, 1000,
      MAX_BLINK_DELAY_MS - 1, MAX_BLINK_DELAY_MS, MAX_BLINK_DELAY_MS + 1,
      100000, LargeDelay }

\* enum LedState { On, Off }
LedState == {"On", "Off"}

\* Placeholders for "no argument" and "no value returned".
NoArg == "none"

NoRet == "none"

VARIABLES
    ctrl,   \* the BlinkController: [state, delay_ms, toggle_count]
    pc,     \* "running", or "panicked" once a call has panicked (panic_halt)
    op,     \* name of the last call
    arg,    \* its argument, or NoArg
    ret,    \* the value it returned, or NoRet
    pre,    \* the controller as it was before the last call
    calls,  \* number of toggle() calls so far, saturating at U64_MODULUS
    mpc,        \* main.rs: position of main()
    pin,        \* main.rs: level of GPIO 16 ("floating" until configured)
    last_write, \* main.rs: level of the last set_high()/set_low(), or "none"
    waited,     \* main.rs: timer waits completed since the last pin write
    timer,      \* main.rs: duration in ms of the last timer wait (0: none yet)
    log,        \* main.rs: its first (level, wait) events
    dpc,        \* controller-driven loop: its position
    out,        \* controller-driven loop: the level it drives ("none" at first)
    ref_log     \* controller-driven loop: its first (level, wait) events

\* The controller and the record of the last call on it.
vars == <<ctrl, pc, op, arg, ret, pre, calls>>

\* main() and its pin.
mvars == <<mpc, pin, last_write, waited, timer, log>>

\* The controller-driven loop of the specification.
dvars == <<dpc, out, ref_log>>

allvars == <<vars, mvars, dvars>>

(***************************************************************************)
(* The code of blink.rs as operators.                                      *)
(***************************************************************************)

\* u64::clamp(self, min, max), as called at blink.rs:205.
clamp(v, min, max) ==
    IF v < min THEN min
    ELSE IF v > max THEN max
    ELSE v

\* Mutant: the upper limit is not applied.
clamp_delay_no_upper(delay_ms) ==
    IF delay_ms < MIN_BLINK_DELAY_MS THEN MIN_BLINK_DELAY_MS ELSE delay_ms

\* fn clamp_delay(delay_ms: u64) -> u64
clamp_delay(delay_ms) ==
    clamp(delay_ms, MIN_BLINK_DELAY_MS, MAX_BLINK_DELAY_MS)

\* Mutant: the level is inverted (an active-low pin).
state_to_level_inverted(state) ==
    state = "Off"

\* fn state_to_level(state: LedState) -> bool
state_to_level(state) ==
    state = "On"

\* impl Default for BlinkController
default ==
    [state |-> "Off", delay_ms |-> BLINK_DELAY_MS, toggle_count |-> 0]

\* BlinkController::new()
new ==
    default

\* Mutant: the requested delay is stored as given.
with_delay_unclamped(delay_ms) ==
    [state |-> "Off", delay_ms |-> delay_ms, toggle_count |-> 0]

\* Mutant: the controller starts switched on.
with_delay_starts_on(delay_ms) ==
    [state |-> "On", delay_ms |-> clamp_delay(delay_ms), toggle_count |-> 0]

\* BlinkController::with_delay(delay_ms)
with_delay(delay_ms) ==
    [state |-> "Off", delay_ms |-> clamp_delay(delay_ms), toggle_count |-> 0]

\* The match of toggle(): On => Off, Off => On.
flip(state) ==
    IF state = "On" THEN "Off" ELSE "On"

\* `n += 1` on a u64.  Below the maximum the sum is stored.  At the maximum
\* the build decides: with overflow checks (cargo's dev and test profiles)
\* the addition panics and nothing is stored; without them (the release
\* profile) the sum wraps.
add_one(n) ==
    IF n < U64_MAX
    THEN { [value |-> n + 1, panic |-> FALSE] }
    ELSE { [value |-> (n + 1) % U64_MODULUS, panic |-> FALSE],
           [value |-> n, panic |-> TRUE] }

\* Mutant: the counter is not incremented.
toggle_no_count(self) ==
    { [self |-> [self EXCEPT !.state = flip(self.state)],
       ret |-> flip(self.state), panic |-> FALSE] }

\* Mutant: the counter restarts whenever the LED is switched off.
toggle_resets_on_off(self) ==
    { [self |-> [self EXCEPT !.state = flip(self.state),
                             !.toggle_count = IF self.state = "On" THEN 0 ELSE s.value],
       ret |-> IF s.panic THEN NoRet ELSE flip(self.state),
       panic |-> s.panic] : s \in add_one(self.toggle_count) }

\* BlinkController::toggle(&mut self) -> LedState: the outcomes of one call,
\* each the controller afterwards, the value returned and whether the call
\* panicked.  The state is assigned before the counter is incremented, so a
\* call that panics on the increment has already flipped the state.
toggle(self) ==
    { [self |-> [self EXCEPT !.state = flip(self.state), !.toggle_count = s.value],
       ret |-> IF s.panic THEN NoRet ELSE flip(self.state),
       panic |-> s.panic] : s \in add_one(self.toggle_count) }

\* The read accessors.
state(self) == self.state

delay_ms(self) == self.delay_ms

toggle_count(self) == self.toggle_count

is_on(self) == self.state = "On"

\* Mutant: is_off is a copy of is_on.
is_off_copy_of_is_on(self) == self.state = "On"

is_off(self) == self.state = "Off"

\* Mutant: the requested delay is stored as given.
set_delay_unclamped(self, d) ==
    [self EXCEPT !.delay_ms = d]

\* Mutant: a delay is only ever lengthened.
set_delay_only_longer(self, d) ==
    [self EXCEPT !.delay_ms = IF clamp_delay(d) > @ THEN clamp_delay(d) ELSE @]

\* Mutant: changing the delay restarts the toggle counter.
set_delay_resets_count(self, d) ==
    [self EXCEPT !.delay_ms = clamp_delay(d), !.toggle_count = 0]

\* Mutant: the request is added to the delay held (`+=` for `=`).
set_delay_accumulates(self, d) ==
    [self EXCEPT !.delay_ms = clamp_delay(@ + d)]

\* BlinkController::set_delay(&mut self, delay_ms)
set_delay(self, d) ==
    [self EXCEPT !.delay_ms = clamp_delay(d)]

(***************************************************************************)
(* Construction.                                                           *)
(***************************************************************************)
\* Before main() runs: nothing configured, nothing recorded.
MainNotStarted ==
    /\ mpc = "start"
    /\ pin = "floating"
    /\ last_write = "none"
    /\ waited = 0
    /\ timer = 0
    /\ log = <<>>

\* Before the controller-driven loop runs.
DriverNotStarted ==
    /\ dpc = "write"
    /\ out = "none"
    /\ ref_log = <<>>

Init ==
    /\ pc = "running"
    /\ ret = NoRet
    /\ calls = 0
    /\ \/ /\ op = "new"
          /\ arg = NoArg
          /\ ctrl = new
       \/ \E d \in DelayInputs :
            /\ op = "with_delay"
            /\ arg = d
            /\ ctrl = with_delay(d)
    /\ pre = ctrl
    /\ MainNotStarted
    /\ DriverNotStarted

(***************************************************************************)
(* The calls.                                                              *)
(***************************************************************************)
\* One call of toggle() on the controller, by whichever caller.
ToggleCall ==
    /\ pc = "running"
    /\ \E o \in toggle(ctrl) :
         /\ ctrl' = o.self
         /\ ret' = o.ret
         /\ pc' = IF o.panic THEN "panicked" ELSE "running"
    /\ op' = "toggle"
    /\ arg' = NoArg
    /\ pre' = ctrl
    /\ calls' = IF calls < U64_MODULUS THEN calls + 1 ELSE calls

Toggle ==
    /\ ToggleCall
    /\ UNCHANGED <<mvars, dvars>>

SetDelay ==
    /\ pc = "running"
    /\ \E d \in DelayInputs :
         /\ ctrl' = set_delay(ctrl, d)
         /\ arg' = d
    /\ op' = "set_delay"
    /\ ret' = NoRet
    /\ pre' = ctrl
    /\ UNCHANGED <<pc, calls>>
    /\ UNCHANGED <<mvars, dvars>>

\* A read accessor `name` returning `value`.
Read(name, value) ==
    /\ pc = "running"
    /\ op' = name
    /\ arg' = NoArg
    /\ ret' = value
    /\ pre' = ctrl
    /\ UNCHANGED <<ctrl, pc, calls>>
    /\ UNCHANGED <<mvars, dvars>>

State == Read("state", state(ctrl))

DelayMs == Read("delay_ms", delay_ms(ctrl))

ToggleCount == Read("toggle_count", toggle_count(ctrl))

IsOn == Read("is_on", is_on(ctrl))

IsOff == Read("is_off", is_off(ctrl))

ClampDelay ==
    /\ pc = "running"
    /\ \E d \in DelayInputs :
         /\ arg' = d
         /\ ret' = clamp_delay(d)
    /\ op' = "clamp_delay"
    /\ pre' = ctrl
    /\ UNCHANGED <<ctrl, pc, calls>>
    /\ UNCHANGED <<mvars, dvars>>

StateToLevel ==
    /\ pc = "running"
    /\ \E s \in LedState :
         /\ arg' = s
         /\ ret' = state_to_level(s)
    /\ op' = "state_to_level"
    /\ pre' = ctrl
    /\ UNCHANGED <<ctrl, pc, calls>>
    /\ UNCHANGED <<mvars, dvars>>

Next ==
    \/ Toggle
    \/ SetDelay
    \/ State
    \/ DelayMs
    \/ ToggleCount
    \/ IsOn
    \/ IsOff
    \/ ClampDelay
    \/ StateToLevel

\* The controller under an arbitrary caller; main() and the
\* controller-driven loop do not run.
Spec == Init /\ [][Next]_allvars

(***************************************************************************)
(* main.rs: main() configures GPIO 16 as an output at Level::Low and then  *)
(* loops set_high, wait 500 ms, set_low, wait 500 ms.  It never touches a  *)
(* BlinkController.                                                        *)
(***************************************************************************)

\* An event list with one more (level, wait) event, while it has room.
Record(events, level, ms) ==
    IF Len(events) < MaxLog
    THEN Append(events, [level |-> level, wait_ms |-> ms])
    ELSE events

\* let mut led = Output::new(p.PIN_16, Level::Low);
MainStart ==
    /\ mpc = "start"
    /\ pin' = "Low"
    /\ mpc' = "set_high"
    /\ UNCHANGED <<last_write, waited, timer, log>>
    /\ UNCHANGED <<vars, dvars>>

\* led.set_high() / led.set_low() at position `at`: the pin is driven to
\* `level`.
PinWrite(at, level, next) ==
    /\ mpc = at
    /\ pin' = level
    /\ last_write' = level
    /\ waited' = 0
    /\ mpc' = next
    /\ UNCHANGED <<timer, log>>
    /\ UNCHANGED <<vars, dvars>>

\* Timer::after_millis(ms).await at position `at`: main() resumes once the
\* timer has fired.
TimerWait(at, ms, next) ==
    /\ mpc = at
    /\ timer' = ms
    /\ waited' = waited + 1
    /\ log' = Record(log, pin = "High", ms)
    /\ mpc' = next
    /\ UNCHANGED <<pin, last_write>>
    /\ UNCHANGED <<vars, dvars>>

MainSetHigh == PinWrite("set_high", "High", "wait_high")

MainWaitHigh == TimerWait("wait_high", 500, "set_low")

\* Mutant: the second write of the loop drives the pin high as well.
MainSetLow_sets_high == PinWrite("set_low", "High", "wait_low")

MainSetLow == PinWrite("set_low", "Low", "wait_low")

MainWaitLow == TimerWait("wait_low", 500, "set_high")

\* One step of main().
MainLoop ==
    \/ MainStart
    \/ MainSetHigh
    \/ MainWaitHigh
    \/ MainSetLow
    \/ MainWaitLow

(***************************************************************************)
(* The controller-driven loop the specification expects of a driver: write *)
(* the level of the current state, wait delay_ms(), toggle(), repeat.      *)
(***************************************************************************)

\* (a) drive the output to state_to_level(controller.state()).
DriverWrite ==
    /\ dpc = "write"
    /\ pc = "running"
    /\ out' = state_to_level(state(ctrl))
    /\ dpc' = "wait"
    /\ UNCHANGED ref_log
    /\ UNCHANGED <<vars, mvars>>

\* (b) wait for controller.delay_ms().
DriverWait ==
    /\ dpc = "wait"
    /\ pc = "running"
    /\ ref_log' = Record(ref_log, out, delay_ms(ctrl))
    /\ dpc' = "toggle"
    /\ UNCHANGED out
    /\ UNCHANGED <<vars, mvars>>

\* (c) controller.toggle(); (d) repeat.
DriverToggle ==
    /\ dpc = "toggle"
    /\ ToggleCall
    /\ dpc' = "write"
    /\ UNCHANGED <<out, ref_log>>
    /\ UNCHANGED mvars

\* main() beside the controller-driven loop on a default-constructed
\* controller.
MainInit ==
    /\ Init
    /\ op = "new"

MainNext ==
    \/ MainStart
    \/ MainSetHigh
    \/ MainWaitHigh
    \/ MainSetLow
    \/ MainWaitLow
    \/ DriverWrite
    \/ DriverWait
    \/ DriverToggle

\* main() is the only task of the executor and its timers fire, so it
\* always takes its next step.
MainSpec == MainInit /\ [][MainNext]_allvars /\ WF_allvars(MainLoop)

\* The controller with a caller that keeps calling toggle().
FairSpec == Spec /\ WF_allvars(Toggle)

(***************************************************************************)
(* The claims.                                                             *)
(***************************************************************************)

\* The explicit clamp policy of the specification: MIN below the range, MAX
\* above it, the value itself inside it.
InRange(d) == MIN_BLINK_DELAY_MS <= d /\ d <= MAX_BLINK_DELAY_MS

\* C1: in every reachable state of the controller, however it was
\* constructed and whatever toggle() and set_delay(x) calls followed,
\* delay_ms lies in [MIN_BLINK_DELAY_MS, MAX_BLINK_DELAY_MS].
C1_DelayWithinBounds ==
    InRange(ctrl.delay_ms)

\* C1 witness: after some toggles, a set_delay above the maximum has been
\* stored as the maximum.
C1_Witness ==
    /\ op = "set_delay"
    /\ arg > MAX_BLINK_DELAY_MS
    /\ calls > 0
    /\ ctrl.delay_ms = MAX_BLINK_DELAY_MS

\* C2: with MIN <= MAX, clamp_delay(d) returns MIN when d < MIN, MAX when
\* d > MAX and d itself when MIN <= d <= MAX; the result is always within
\* [MIN, MAX].
C2_ClampDelayContract ==
    /\ MIN_BLINK_DELAY_MS <= MAX_BLINK_DELAY_MS
    /\ op = "clamp_delay" =>
         /\ arg < MIN_BLINK_DELAY_MS => ret = MIN_BLINK_DELAY_MS
         /\ arg > MAX_BLINK_DELAY_MS => ret = MAX_BLINK_DELAY_MS
         /\ InRange(arg) => ret = arg
         /\ InRange(ret)

\* C2 witness: clamp_delay was applied to a value just above the maximum
\* and returned the maximum.
C2_Witness ==
    /\ op = "clamp_delay"
    /\ arg = MAX_BLINK_DELAY_MS + 1
    /\ ret = MAX_BLINK_DELAY_MS

\* C3 as claimed: toggle() called in any reachable state flips state,
\* increases toggle_count by exactly 1 (in u64 arithmetic) and returns the
\* new state, which is the state read immediately afterwards.
C3_ToggleContract ==
    op = "toggle" =>
        /\ ctrl.state = flip(pre.state)
        /\ ctrl.toggle_count = (pre.toggle_count + 1) % U64_MODULUS
        /\ ret = state(ctrl)

\* C4: every constructed controller starts with state Off and toggle_count
\* 0; the default-constructed one also has delay_ms = BLINK_DELAY_MS.
C4_InitialState ==
    op \in {"new", "with_delay"} =>
        /\ ctrl.state = "Off"
        /\ ctrl.toggle_count = 0
        /\ op = "new" => ctrl.delay_ms = BLINK_DELAY_MS

\* C4 witness: a controller just built by with_delay from an out-of-range
\* delay.
C4_Witness ==
    /\ op = "with_delay"
    /\ arg = 100000
    /\ ctrl.state = "Off"
    /\ ctrl.toggle_count = 0

\* C5: with_delay(d) never fails and yields a controller whose delay_ms is
\* clamp_delay(d): d when MIN <= d <= MAX, MIN when d < MIN, MAX when
\* d > MAX.
C5_WithDelayClamps ==
    op = "with_delay" =>
        /\ pc = "running"
        /\ ctrl.delay_ms = clamp_delay(arg)
        /\ InRange(arg) => ctrl.delay_ms = arg
        /\ arg < MIN_BLINK_DELAY_MS => ctrl.delay_ms = MIN_BLINK_DELAY_MS
        /\ arg > MAX_BLINK_DELAY_MS => ctrl.delay_ms = MAX_BLINK_DELAY_MS

\* C5 witness: with_delay(1) built a controller with the minimum delay.
C5_Witness ==
    /\ op = "with_delay"
    /\ arg = 1
    /\ ctrl.delay_ms = MIN_BLINK_DELAY_MS

\* C6: set_delay(d) replaces delay_ms with clamp_delay(d), whatever delay
\* was held before the call: delay_ms read afterwards is d when in range,
\* MIN when below, MAX when above.
C6_SetDelayReplaces ==
    op = "set_delay" =>
        /\ delay_ms(ctrl) = clamp_delay(arg)
        /\ InRange(arg) => delay_ms(ctrl) = arg
        /\ arg < MIN_BLINK_DELAY_MS => delay_ms(ctrl) = MIN_BLINK_DELAY_MS
        /\ arg > MAX_BLINK_DELAY_MS => delay_ms(ctrl) = MAX_BLINK_DELAY_MS

\* C6 witness: a controller holding the maximum delay was given
\* set_delay(1) and now holds the minimum.
C6_Witness ==
    /\ op = "set_delay"
    /\ arg = 1
    /\ pre.delay_ms = MAX_BLINK_DELAY_MS
    /\ ctrl.delay_ms = MIN_BLINK_DELAY_MS

\* C7: after any sequence of calls holding exactly N toggle() calls, N below
\* the modulus of the counter, toggle_count equals N.
C7_ToggleCountEqualsCalls ==
    calls < U64_MODULUS => toggle_count(ctrl) = calls

\* C7 witness: the largest N of the claim, with a set_delay interleaved
\* after the last toggle.
C7_Witness ==
    /\ calls = U64_MAX
    /\ op = "set_delay"
    /\ ctrl.toggle_count = U64_MAX

\* C8 as claimed: two consecutive toggle() calls leave state as it was
\* before the first and increase toggle_count by exactly 2 (in u64
\* arithmetic).  In a step that is a toggle following a toggle, pre is the
\* controller before the first of the two.
C8_DoubleToggle ==
    [][ (op = "toggle" /\ op' = "toggle") =>
          /\ ctrl'.state = pre.state
          /\ ctrl'.toggle_count = (pre.toggle_count + 2) % U64_MODULUS ]_vars

\* C9 as claimed: every operation is total, so no call ever ends in a
\* panic, toggle() at the maximum of the counter included.
C9_NoCallFails ==
    pc # "panicked"

\* C10: toggle_count never decreases, except on a toggle() taken at the
\* maximum of the counter, which takes it to 0.
C10_CountDecreasesOnlyOnWrap ==
    [][ ctrl'.toggle_count < ctrl.toggle_count =>
          /\ op' = "toggle"
          /\ ctrl.toggle_count = U64_MAX
          /\ ctrl'.toggle_count = 0 ]_vars

\* C10 witness: a toggle() taken at the maximum has wrapped the counter.
C10_Witness ==
    /\ op = "toggle"
    /\ pc = "running"
    /\ pre.toggle_count = U64_MAX
    /\ ctrl.toggle_count = 0

\* C11: in every reachable state exactly one of is_on() and is_off() is
\* true, is_on() is true exactly when state is On, and a call of either
\* returns that value; right after construction is_on() is false and
\* is_off() is true.
C11_IsOnXorIsOff ==
    /\ is_on(ctrl) = ~is_off(ctrl)
    /\ is_on(ctrl) <=> ctrl.state = "On"
    /\ op = "is_on" => ret = (ctrl.state = "On")
    /\ op = "is_off" => ret = (ctrl.state # "On")
    /\ op \in {"new", "with_delay"} => ~is_on(ctrl) /\ is_off(ctrl)

\* C11 witness: is_off() was called on a switched-on controller and
\* returned false.
C11_Witness ==
    /\ op = "is_off"
    /\ ctrl.state = "On"
    /\ ret = FALSE

\* C12: state_to_level maps On to true and Off to false, so in every
\* reachable state state_to_level(state()) equals is_on().
C12_StateToLevel ==
    /\ op = "state_to_level" =>
         /\ arg = "On" => ret = TRUE
         /\ arg = "Off" => ret = FALSE
    /\ state_to_level(state(ctrl)) = is_on(ctrl)

\* C12 witness: state_to_level(Off) returned false while the controller
\* itself was switched on.
C12_Witness ==
    /\ op = "state_to_level"
    /\ arg = "Off"
    /\ ret = FALSE
    /\ ctrl.state = "On"

\* The read accessors of the controller.
Accessors == {"state", "delay_ms", "toggle_count", "is_on", "is_off"}

\* C14: toggle() leaves delay_ms unchanged; set_delay(d) leaves state and
\* toggle_count unchanged; the read accessors leave all three fields
\* unchanged; so state changes only on toggle() steps and delay_ms only on
\* set_delay() steps.
C14_FrameEffects ==
    [][ /\ op' = "toggle" => ctrl'.delay_ms = ctrl.delay_ms
        /\ op' = "set_delay" =>
             /\ ctrl'.state = ctrl.state
             /\ ctrl'.toggle_count = ctrl.toggle_count
        /\ op' \in Accessors => ctrl' = ctrl
        /\ ctrl'.state # ctrl.state => op' = "toggle"
        /\ ctrl'.delay_ms # ctrl.delay_ms => op' = "set_delay" ]_vars

\* C14 witness: a set_delay that changed the delay of a controller that had
\* been toggled an odd number of times, and left state and count alone.
C14_Witness ==
    /\ op = "set_delay"
    /\ ctrl.delay_ms # pre.delay_ms
    /\ ctrl.state = "On"
    /\ pre.state = "On"
    /\ ctrl.toggle_count = pre.toggle_count
    /\ ctrl.toggle_count > 0

\* C17: in every state reached by fewer toggle() calls than the counter
\* has values (so before it wraps), state is On exactly when toggle_count
\* is odd and Off exactly when it is even.
C17_Parity ==
    calls < U64_MODULUS =>
        /\ ctrl.state = "On" <=> ctrl.toggle_count % 2 = 1
        /\ ctrl.state = "Off" <=> ctrl.toggle_count % 2 = 0

\* C17 witness: a controller built by with_delay, toggled three times and
\* then given a new delay, is switched on.
C17_Witness ==
    /\ calls = 3
    /\ op = "set_delay"
    /\ ctrl.toggle_count = 3
    /\ ctrl.state = "On"
    /\ ctrl.delay_ms # BLINK_DELAY_MS

\* C18: clamping is idempotent: clamp_delay of a value clamp_delay
\* returned is that value; set_delay(delay_ms()) leaves the controller
\* unchanged; a second set_delay(d) right after set_delay(d) leaves the
\* controller as the first one left it.
C18_ClampIdempotent ==
    [][ /\ op' = "clamp_delay" => clamp_delay(ret') = ret'
        /\ (op' = "set_delay" /\ arg' = delay_ms(ctrl)) => ctrl' = ctrl
        /\ (op = "set_delay" /\ op' = "set_delay" /\ arg' = arg) => ctrl' = ctrl
      ]_vars

\* C18 witness: set_delay(100000) was called on a controller that already
\* held the maximum delay because of an earlier out-of-range request.
C18_Witness ==
    /\ op = "set_delay"
    /\ arg = 100000
    /\ pre.delay_ms = MAX_BLINK_DELAY_MS
    /\ ctrl = pre

\* toggle() and then set_delay(d) on the controller `self`: the outcomes of
\* the pair.  A toggle() that panics halts the program (panic_halt), so
\* the set_delay(d) after it never runs.
toggle_then_set_delay(self, d) ==
    { IF o.panic THEN o ELSE [o EXCEPT !.self = set_delay(o.self, d)] :
        o \in toggle(self) }

\* set_delay(d) and then toggle() on the controller `self`.
set_delay_then_toggle(self, d) ==
    toggle(set_delay(self, d))

\* C19 as claimed: from any reachable controller state and for every d,
\* toggle() then set_delay(d) ends with the same state, delay_ms and
\* toggle_count, and the same value returned by toggle(), as set_delay(d)
\* then toggle().
C19_ToggleSetDelayCommute ==
    pc = "running" =>
        \A d \in DelayInputs :
            toggle_then_set_delay(ctrl, d) = set_delay_then_toggle(ctrl, d)

\* A step of main() that writes the pin.
IsPinWrite == mpc \in {"set_high", "set_low"} /\ mpc' # mpc

\* A step of main() that waits for a timer.
IsTimerWait == mpc \in {"wait_high", "wait_low"} /\ mpc' # mpc

\* C13: main() initialises the pin Low and then toggles it every 500 ms:
\* every pin write changes the level and differs from the write before it,
\* exactly one timer wait lies between a write and the next, every wait is
\* of 500 ms, and the loop never ends: it writes high again and again and
\* low again and again.
C13_MainBlinks ==
    /\ [][ /\ (mpc = "start" /\ mpc' # mpc) => pin' = "Low"
           /\ IsPinWrite =>
                /\ pin' # pin
                /\ last_write' # last_write
                /\ last_write # "none" => waited = 1
           /\ IsTimerWait => timer' = 500 /\ waited = 0 ]_allvars
    /\ []<>(mpc = "wait_high" /\ pin = "High")
    /\ []<>(mpc = "wait_low" /\ pin = "Low")

\* C13 witness: main() has been round its loop more than once and has
\* just driven the pin low again.
C13_Witness ==
    /\ Len(log) >= 3
    /\ mpc = "wait_low"
    /\ pin = "Low"
    /\ last_write = "Low"
    /\ waited = 0
    /\ timer = 500

\* The shorter of two lengths.
Shorter(a, b) == IF Len(a) < Len(b) THEN Len(a) ELSE Len(b)

\* C16 as claimed: the (pin level, wait duration) events of main() are
\* those of the loop "write the level of the current state; wait
\* delay_ms(); toggle(); repeat" on a default-constructed controller: as
\* far as both have run, their event lists agree.
C16_MainFollowsController ==
    \A i \in 1..Shorter(log, ref_log) : log[i] = ref_log[i]

\* C15 as claimed: the state machine has no terminal state: toggle() is
\* enabled in every reachable state, and with a caller that keeps calling
\* toggle() the LED is On infinitely often and Off infinitely often.
C15_NoTerminalState ==
    /\ [](ENABLED Toggle)
    /\ []<>(ctrl.state = "On")
    /\ []<>(ctrl.state = "Off")

====
